---- MODULE Spec2Model ----
(***************************************************************************)
(* Model of RAG-001/index.py: a straight-line script that downloads the    *)
(* NLTK corpora (best effort), loads the documents of ./data, shapes their *)
(* metadata, runs an ingestion pipeline (split, title extraction,          *)
(* questions-answered extraction), indexes the nodes and answers a query.  *)
(*                                                                         *)
(* The program counter pc names the statement about to be executed.  Every *)
(* call into a library or hosted service either returns or raises; what it *)
(* returns is chosen from small sets.                                      *)
(***************************************************************************)
EXTENDS Integers, Sequences, FiniteSets, TLC

\* ------------------------------------------------------------------ bounds
MaxDocs == 2          \* documents the loader returns: 0..MaxDocs
MaxChunks == 1        \* chunks the splitter makes of one document: 0..MaxChunks
MaxReapply == 3       \* how many times the shaping body is re-applied in C10

\* --------------------------------------------------------------- constants
PageLabel == "page_label"
FileName == "file_name"
ApiKeyVar == "GROQ_API_KEY"
ShapedTemplate == "Metadata:{metadata_str}-----Content:{content}"
DefaultTemplate == "{metadata_str}{content}"

\* Metadata keys a loaded document may list in its exclusion lists.
Keys == {PageLabel, FileName}

Range(s) == {s[i] : i \in 1..Len(s)}

Count(k, s) == Cardinality({i \in 1..Len(s) : s[i] = k})

IsPrefix(s, t) == Len(s) <= Len(t) /\ \A i \in 1..Len(s) : s[i] = t[i]

\* Duplicate-free lists of metadata keys.
KeyLists == {s \in UNION {[1..n -> Keys] : n \in 0..Cardinality(Keys)} :
                \A i, j \in 1..Len(s) : i # j => s[i] # s[j]}

\* The exclusion lists for the language-model rendering mode.
LlmKeyLists == {<<FileName>>}

\* A Document as the loader returns it.
Documents == [text : {"content"},
              metadata : {{FileName, PageLabel}},
              text_template : {DefaultTemplate},
              excluded_embed_metadata_keys : KeyLists,
              excluded_llm_metadata_keys : LlmKeyLists]

DocLists == UNION {[1..n -> Documents] : n \in 0..MaxDocs}

\* ------------------------------------------------------------ control flow
\* The statements of the script in textual order.
Order == <<"nltk_stopwords", "nltk_punkt", "nltk_punkt_tab",
           "load_data", "shape", "load_dotenv", "llm_transformations",
           "configure", "pipeline_run", "print_nodes", "hf_embedding",
           "test_embedding", "index", "llm_querying", "as_query_engine",
           "query", "print_response", "done">>

Rank(p) == CHOOSE i \in 1..Len(Order) : Order[i] = p

\* The statement that follows p when p completes normally.
SuccReenter(p) == IF p = "index" THEN "load_data" ELSE Order[Rank(p) + 1]
Succ(p) == Order[Rank(p) + 1]

\* The statements inside the try block of lines 16-19.
NltkCalls == {"nltk_stopwords", "nltk_punkt", "nltk_punkt_tab"}

\* Where control goes when statement p raises: the except clause of the
\* enclosing try block if there is one, the top level otherwise.
OnRaiseNoTry(p) == "crashed"
OnRaiseSwallow(p) == IF p \in NltkCalls THEN "nltk_except" ELSE Succ(p)
OnRaise(p) == IF p \in NltkCalls THEN "nltk_except" ELSE "crashed"

\* The five stages and the statement that carries each of them.
Stages == <<"Loader", "Shaper", "Ingestion", "Indexer", "Query">>

\* ---------------------------------------------------------------- state
VARIABLES pc,          \* statement about to run, or "nltk_except"/"crashed"
          raisedAt,    \* statement whose exception is being handled, or "none"
          environ,     \* names defined in os.environ
          docs,        \* the list docs
          loaded,      \* docs as load_data returned it
          shapeIdx,    \* position of the for loop of line 77
          transformations, \* the list given to IngestionPipeline
          nodes,       \* the items flowing through / returned by the pipeline
          tIdx,        \* next transformation of the running pipeline
          applied,     \* log: the input each transformation received
          runs,        \* per stage: how many times it was started
          completed,   \* the stages that have returned
          out          \* what was printed

vars == <<pc, raisedAt, environ, docs, loaded, shapeIdx,
          transformations, nodes, tIdx, applied, runs, completed, out>>

Init ==
    /\ pc = "nltk_stopwords"
    /\ raisedAt = "none"
    /\ environ \in SUBSET {ApiKeyVar}
    /\ docs = <<>>
    /\ loaded = <<>>
    /\ shapeIdx = 1
    /\ transformations = <<>>
    /\ nodes = <<>>
    /\ tIdx = 1
    /\ applied = <<>>
    /\ runs = [s \in Range(Stages) |-> 0]
    /\ completed = {}
    /\ out = <<>>

\* ------------------------------------------------------------- operations
\* os.environ[name] raises KeyError exactly when the name is not defined.
KeyErrorGet(name) == FALSE
KeyError(name) == name \notin environ

\* The body of the for loop of lines 77-83 applied to one document.
ShapeDocAlways(d) ==
    [d EXCEPT !.text_template = ShapedTemplate,
              !.excluded_embed_metadata_keys = Append(@, PageLabel)]
ShapeDocNever(d) == [d EXCEPT !.text_template = ShapedTemplate]
ShapeDoc(d) ==
    [d EXCEPT !.text_template = ShapedTemplate,
              !.excluded_embed_metadata_keys =
                  IF PageLabel \notin Range(@) THEN Append(@, PageLabel) ELSE @]

RECURSIVE ShapeTimes(_, _)
ShapeTimes(d, n) == IF n = 0 THEN d ELSE ShapeTimes(ShapeDoc(d), n - 1)

\* The transformations list of lines 130-136.
TransformationsTitleFirst == <<"title", "split", "questions">>
Transformations == <<"split", "title", "questions">>

\* The documents as the pipeline receives them (documents=docs).
AsItems(ds) == [i \in 1..Len(ds) |-> [type |-> "Document", src |-> i, extracted |-> {}]]

\* The splitter: item i becomes counts[i] chunks, each of one source item.
\* How many chunks a text gives is the library's business: counts is free.
RECURSIVE Split(_, _)
Split(items, counts) ==
    IF items = <<>> THEN <<>>
    ELSE LET n == Len(items)
             chunks == [k \in 1..counts[n] |->
                          [type |-> "TextNode", src |-> items[n].src,
                           extracted |-> items[n].extracted]]
         IN  Split(SubSeq(items, 1, n - 1), counts) \o chunks

\* An extractor marks every item it is given as processed by it; what it
\* writes into the item's metadata is the library's business.
Extract(name, items) ==
    [i \in 1..Len(items) |-> [items[i] EXCEPT !.extracted = @ \cup {name}]]

Begin(s) == [runs EXCEPT ![s] = @ + 1]

\* Statements whose library call may fail for reasons outside the script.
CanRaise == NltkCalls \cup {"load_data", "pipeline_run", "hf_embedding",
                            "test_embedding", "index", "query"}

\* ----------------------------------------------------------------- actions
\* Lines 17-19: one nltk.download call returns.
NltkDownload ==
    /\ pc \in NltkCalls
    /\ pc' = Succ(pc)
    /\ UNCHANGED <<raisedAt, environ, docs, loaded, shapeIdx,
                   transformations, nodes, tIdx, applied, runs, completed, out>>

\* Lines 20-21: the except clause prints the warning and falls through; the
\* exception it handled is gone when the clause ends.
NltkExcept ==
    /\ pc = "nltk_except"
    /\ pc' = "load_data"
    /\ out' = Append(out, "Warning")
    /\ raisedAt' = "none"
    /\ UNCHANGED <<environ, docs, loaded, shapeIdx,
                   transformations, nodes, tIdx, applied, runs, completed>>

\* Lines 26-28: the loader returns the documents.
LoadData ==
    /\ pc = "load_data"
    /\ \E ds \in DocLists : docs' = ds /\ loaded' = ds
    /\ runs' = Begin("Loader")
    /\ completed' = completed \cup {"Loader"}
    /\ out' = Append(out, "Loaded")
    /\ pc' = Succ(pc)
    /\ UNCHANGED <<raisedAt, environ, shapeIdx, transformations,
                   nodes, tIdx, applied>>

\* Lines 77-83: one iteration of the shaping loop.
ShapeStep ==
    /\ pc = "shape"
    /\ shapeIdx <= Len(docs)
    /\ docs' = [docs EXCEPT ![shapeIdx] = ShapeDoc(@)]
    /\ shapeIdx' = shapeIdx + 1
    /\ runs' = IF shapeIdx = 1 THEN Begin("Shaper") ELSE runs
    /\ UNCHANGED <<pc, raisedAt, environ, loaded, transformations,
                   nodes, tIdx, applied, completed, out>>

\* Line 77: the loop is exhausted.
ShapeEnd ==
    /\ pc = "shape"
    /\ shapeIdx > Len(docs)
    /\ runs' = IF shapeIdx = 1 THEN Begin("Shaper") ELSE runs
    /\ completed' = completed \cup {"Shaper"}
    /\ pc' = Succ(pc)
    /\ UNCHANGED <<raisedAt, environ, docs, loaded, shapeIdx,
                   transformations, nodes, tIdx, applied, out>>

\* Line 93: load_dotenv() defines the names of .env that are not yet defined.
LoadDotenv ==
    /\ pc = "load_dotenv"
    /\ \E dotenvFile \in SUBSET {ApiKeyVar} : environ' = environ \cup dotenvFile
    /\ pc' = Succ(pc)
    /\ UNCHANGED <<raisedAt, docs, loaded, shapeIdx,
                   transformations, nodes, tIdx, applied, runs, completed, out>>

\* Lines 96-99 and 175-178: a Groq client is built from os.environ[...].
MakeLlm ==
    /\ pc \in {"llm_transformations", "llm_querying"}
    /\ ~KeyError(ApiKeyVar)
    /\ pc' = Succ(pc)
    /\ UNCHANGED <<raisedAt, environ, docs, loaded, shapeIdx,
                   transformations, nodes, tIdx, applied, runs, completed, out>>

\* Lines 110-136: the splitter, the extractors and the pipeline are built.
Configure ==
    /\ pc = "configure"
    /\ transformations' = Transformations
    /\ pc' = Succ(pc)
    /\ UNCHANGED <<raisedAt, environ, docs, loaded, shapeIdx,
                   nodes, tIdx, applied, runs, completed, out>>

\* Lines 139-143: the pipeline applies its next transformation to the
\* output of the previous one (to the documents for the first one).
PipelineStep ==
    /\ pc = "pipeline_run"
    /\ tIdx <= Len(transformations)
    /\ LET input == IF tIdx = 1 THEN AsItems(docs) ELSE nodes
           t == transformations[tIdx]
       IN  /\ IF t = "split"
              THEN \E counts \in [1..Len(input) -> 0..MaxChunks] :
                      nodes' = Split(input, counts)
              ELSE nodes' = Extract(t, input)
           /\ applied' = Append(applied,
                                [name |-> t, received |-> input])
    /\ tIdx' = tIdx + 1
    /\ runs' = IF tIdx = 1 THEN Begin("Ingestion") ELSE runs
    /\ UNCHANGED <<pc, raisedAt, environ, docs, loaded, shapeIdx,
                   transformations, completed, out>>

\* Lines 139-145: the pipeline returns the nodes.
PipelineReturn ==
    /\ pc = "pipeline_run"
    /\ tIdx > Len(transformations)
    /\ completed' = completed \cup {"Ingestion"}
    /\ out' = Append(out, "Transformed")
    /\ pc' = Succ(pc)
    /\ UNCHANGED <<raisedAt, environ, docs, loaded, shapeIdx,
                   transformations, nodes, tIdx, applied, runs>>

\* Line 152: print(nodes[0]...).
PrintNodes ==
    /\ pc = "print_nodes"
    /\ nodes # <<>>
    /\ out' = Append(out, "Node")
    /\ pc' = Succ(pc)
    /\ UNCHANGED <<raisedAt, environ, docs, loaded, shapeIdx,
                   transformations, nodes, tIdx, applied, runs, completed>>

\* Lines 158-161: the embedding model is built and tried.
Embedding ==
    /\ pc \in {"hf_embedding", "test_embedding"}
    /\ out' = IF pc = "test_embedding" THEN Append(out, "Test embedding") ELSE out
    /\ pc' = Succ(pc)
    /\ UNCHANGED <<raisedAt, environ, docs, loaded, shapeIdx,
                   transformations, nodes, tIdx, applied, runs, completed>>

\* Lines 167-170: the index is built from the nodes.
Index ==
    /\ pc = "index"
    /\ runs' = Begin("Indexer")
    /\ completed' = completed \cup {"Indexer"}
    /\ pc' = Succ(pc)
    /\ UNCHANGED <<raisedAt, environ, docs, loaded, shapeIdx,
                   transformations, nodes, tIdx, applied, out>>

\* Lines 180-184: the query engine is built.
AsQueryEngine ==
    /\ pc = "as_query_engine"
    /\ runs' = Begin("Query")
    /\ pc' = Succ(pc)
    /\ UNCHANGED <<raisedAt, environ, docs, loaded, shapeIdx,
                   transformations, nodes, tIdx, applied, completed, out>>

\* Lines 186-188: the query is answered.
Query ==
    /\ pc = "query"
    /\ completed' = completed \cup {"Query"}
    /\ pc' = Succ(pc)
    /\ UNCHANGED <<raisedAt, environ, docs, loaded, shapeIdx,
                   transformations, nodes, tIdx, applied, runs, out>>

\* Lines 190-192: the response is printed.
PrintResponse ==
    /\ pc = "print_response"
    /\ out' = out \o <<"Query response", "Response dict">>
    /\ pc' = Succ(pc)
    /\ UNCHANGED <<raisedAt, environ, docs, loaded, shapeIdx,
                   transformations, nodes, tIdx, applied, runs, completed>>

\* The statement at pc raises: a library call fails, os.environ[...] has no
\* such name (lines 98, 177), or nodes[0] does not exist (line 152).
Raise ==
    /\ \/ pc \in CanRaise
       \/ pc \in {"llm_transformations", "llm_querying"} /\ KeyError(ApiKeyVar)
       \/ pc = "print_nodes" /\ nodes = <<>>
    /\ raisedAt' = pc
    /\ pc' = OnRaise(pc)
    /\ runs' = IF pc = "load_data" THEN Begin("Loader")
               ELSE IF pc = "pipeline_run" /\ tIdx = 1 THEN Begin("Ingestion")
               ELSE IF pc = "index" THEN Begin("Indexer")
               ELSE runs
    /\ UNCHANGED <<environ, docs, loaded, shapeIdx,
                   transformations, nodes, tIdx, applied, completed, out>>

Next ==
    \/ NltkDownload
    \/ NltkExcept
    \/ LoadData
    \/ ShapeStep
    \/ ShapeEnd
    \/ LoadDotenv
    \/ MakeLlm
    \/ Configure
    \/ PipelineStep
    \/ PipelineReturn
    \/ PrintNodes
    \/ Embedding
    \/ Index
    \/ AsQueryEngine
    \/ Query
    \/ PrintResponse
    \/ Raise

Spec == Init /\ [][Next]_vars

\* ---------------------------------------------------------------- claims
\* The statement the script is at, or was at when it stopped.
Where == IF pc \in {"crashed", "nltk_except"} THEN raisedAt ELSE pc

\* The statement that starts each stage, in the order of Stages.
StageStmt == <<"load_data", "shape", "pipeline_run", "index", "as_query_engine">>

\* C1: the five stages run in the order Loader, Shaper, Ingestion, Indexer,
\* Query: a stage starts only when the previous one has completed, and no
\* stage is started more than once.
C1_StagesInOrder ==
    \A i \in 1..Len(Stages) :
        /\ runs[Stages[i]] <= 1
        /\ (Stages[i] \in completed => runs[Stages[i]] = 1)
        /\ (i > 1 /\ runs[Stages[i]] >= 1 => Stages[i - 1] \in completed)

C1_Witness ==
    /\ pc = "done"
    /\ completed = Range(Stages)
    /\ \A s \in Range(Stages) : runs[s] = 1

\* C2: the pipeline applies split, then title extraction, then questions
\* extraction; both extractors receive only chunks made by the splitter, and
\* the questions extractor receives them after title extraction is done.
C2_TransformationOrder ==
    /\ Len(applied) <= 3
    /\ \A i \in 1..Len(applied) :
        /\ applied[i].name = <<"split", "title", "questions">>[i]
        /\ applied[i].name \in {"title", "questions"} =>
              \A k \in 1..Len(applied[i].received) :
                  applied[i].received[k].type = "TextNode"
        /\ applied[i].name = "questions" =>
              \A k \in 1..Len(applied[i].received) :
                  "title" \in applied[i].received[k].extracted

C2_Witness ==
    /\ Len(applied) = 3
    /\ applied[2].received # <<>>
    /\ applied[3].received # <<>>

\* The state in which the loader starts when every download succeeded.
Fresh ==
    /\ docs = <<>> /\ loaded = <<>> /\ shapeIdx = 1
    /\ transformations = <<>> /\ nodes = <<>> /\ tIdx = 1 /\ applied = <<>>
    /\ runs = [s \in Range(Stages) |-> 0] /\ completed = {}

\* C3: when an nltk.download call raises, control goes to the except
\* clause, which prints the warning; the process does not terminate, and
\* the loader runs next from the same state as after a successful download.
C3_DownloadFailureIgnored ==
    [][/\ (pc \in NltkCalls /\ raisedAt' = pc) => pc' = "nltk_except"
       /\ pc = "nltk_except" =>
              /\ pc' = "load_data"
              /\ out' = <<"Warning">>
              /\ raisedAt' = "none"
              /\ Fresh'
              /\ environ' = environ
       /\ (pc = "nltk_punkt_tab" /\ pc' = "load_data") =>
              /\ out' = <<>>
              /\ raisedAt' = "none"
              /\ Fresh'
              /\ environ' = environ
       /\ (pc = "load_data" /\ pc' # "crashed") =>
              /\ pc' = "shape"
              /\ "Loader" \in completed']_vars

C3_Witness ==
    /\ pc = "shape"
    /\ "Loader" \in completed
    /\ out = <<"Warning", "Loaded">>

\* C4: with GROQ_API_KEY absent after load_dotenv, the script stops with an
\* error at the first Groq construction; the ingestion pipeline, the indexer
\* and the query engine never run and no query response is printed.
C4_MissingKeyFatal ==
    [][/\ (pc = "llm_transformations" /\ ApiKeyVar \notin environ) =>
              pc' = "crashed"
       /\ (Rank(Where') > Rank("load_dotenv") /\ ApiKeyVar \notin environ') =>
              /\ Where' = "llm_transformations"
              /\ runs'["Ingestion"] = 0
              /\ runs'["Indexer"] = 0
              /\ runs'["Query"] = 0
              /\ "Query response" \notin Range(out')]_vars

C4_Witness ==
    /\ pc = "crashed"
    /\ raisedAt = "llm_transformations"
    /\ ApiKeyVar \notin environ

\* C5: a failure outside the nltk downloads takes the process directly to
\* the terminated-with-error state, from which nothing more happens: no
\* later stage has started, and no query response is printed.
C5_OtherFailuresFatal ==
    [][/\ pc # "crashed"
       /\ (raisedAt' = pc /\ pc \notin NltkCalls) =>
              /\ pc' = "crashed"
              /\ \A i \in 1..Len(Stages) :
                    runs'[Stages[i]] >= 1 => Rank(StageStmt[i]) <= Rank(pc)
              /\ "Query response" \notin Range(out')]_vars

C5_Witness ==
    /\ pc = "crashed"
    /\ raisedAt = "pipeline_run"
    /\ tIdx = 2
    /\ nodes # <<>>

\* C6: from the end of the shaping step to the start of the splitting
\* transformation, every document lists page_label among its excluded
\* metadata keys, whatever the list held before.
C6_PageLabelExcluded ==
    ("Shaper" \in completed /\ tIdx = 1) =>
        \A i \in 1..Len(docs) :
            PageLabel \in Range(docs[i].excluded_embed_metadata_keys)

C6_Witness ==
    /\ pc = "pipeline_run"
    /\ tIdx = 1
    /\ \E i, j \in 1..Len(docs) :
          /\ PageLabel \notin Range(loaded[i].excluded_embed_metadata_keys)
          /\ PageLabel \in Range(loaded[j].excluded_embed_metadata_keys)

\* C7: after shaping, every document lists page_label among the metadata
\* keys excluded from the language-model rendering mode.
C7_PageLabelHiddenFromLlm ==
    "Shaper" \in completed =>
        \A i \in 1..Len(docs) :
            PageLabel \in Range(docs[i].excluded_llm_metadata_keys)

\* C10: shaping is idempotent on the exclusion list: after the loop, and
\* after applying its body any number of times more, page_label occurs
\* exactly once in the list, the keys listed before are still there in the
\* same order, and the text and the metadata mapping are unchanged.
C10_ShapingIdempotent ==
    "Shaper" \in completed =>
        \A i \in 1..Len(docs) : \A n \in 0..MaxReapply :
            LET d == ShapeTimes(docs[i], n)
            IN  /\ Count(PageLabel, d.excluded_embed_metadata_keys) = 1
                /\ IsPrefix(loaded[i].excluded_embed_metadata_keys,
                            d.excluded_embed_metadata_keys)
                /\ d.text = loaded[i].text
                /\ d.metadata = loaded[i].metadata
                /\ d = docs[i]

C10_Witness ==
    /\ "Shaper" \in completed
    /\ \E i, j \in 1..Len(docs) :
          /\ loaded[i].excluded_embed_metadata_keys = <<PageLabel, FileName>>
          /\ docs[i].excluded_embed_metadata_keys = <<PageLabel, FileName>>
          /\ loaded[j].excluded_embed_metadata_keys = <<FileName>>
          /\ docs[j].excluded_embed_metadata_keys = <<FileName, PageLabel>>

====
